---- MODULE Spec2Model ----
(***************************************************************************)
(* Model of services/easyocr_extract.py: one process run that validates an *)
(* image file, tries four rotations of it through the recognition engine,  *)
(* keeps the best-scoring text and writes one JSON report to stdout.       *)
(*                                                                         *)
(* Python strings whose content matters (recognised text, keywords,        *)
(* rotation names, paths) are sequences of one-character strings.  The     *)
(* degree sign of the rotation names is written "deg".                     *)
(***************************************************************************)
EXTENDS Integers, Sequences, FiniteSets, TLC

\* ------------------------------------------------------------------ bounds
\* fragments returned by one readtext call in a pipeline run
MaxFragments == 2
\* fragments returned by the readtext call of the scoring specification
MaxScoreFragments == 3

\* --------------------------------------------------------------- constants
max_dimension == 3000
\* significand width of a Python float (IEEE 754 binary64)
mant_dig == 53
keyword_weight == 100

None == <<>>

common_words ==
    << <<"t", "o", "t", "a", "l">>,
       <<"t", "a", "x">>,
       <<"s", "u", "b", "t", "o", "t", "a", "l">>,
       <<"r", "e", "c", "e", "i", "p", "t">>,
       <<"d", "a", "t", "e">>,
       <<"s", "t", "o", "r", "e">>,
       <<"i", "n", "v", "o", "i", "c", "e">>,
       <<"p", "a", "i", "d">>,
       <<"c", "h", "a", "n", "g", "e">>,
       <<"c", "a", "s", "h">>,
       <<"c", "a", "r", "d">>,
       <<"a", "m", "o", "u", "n", "t">>,
       <<"q", "t", "y">>,
       <<"p", "r", "i", "c", "e">> >>

\* cv2.ROTATE_90_CLOCKWISE, cv2.ROTATE_180, cv2.ROTATE_90_COUNTERCLOCKWISE
ROTATE_90_CLOCKWISE == 0
ROTATE_180 == 1
ROTATE_90_COUNTERCLOCKWISE == 2

\* ------------------------------------------------------------ environment
\* sys.argv with and without the image path argument
ScriptName == <<"e", ".", "p", "y">>
PathArg == <<"r", ".", "j", "p", "g">>
Argvs == { <<ScriptName>>, <<ScriptName, PathArg>> }

\* img.shape[:2] of what cv2.imread can decode: (height, width)
Shapes ==
    { <<0, 5>>, <<5, 0>>, <<4, 6>>, <<6000, 4000>>, <<3001, 1>>,
      <<4177, 4177>> }

\* what is at the image path: nothing, an empty file, a file that does not
\* decode (imread returns None), or an image of one of the shapes
Disks ==
    { [exists |-> FALSE, size |-> 0, decoded |-> None],
      [exists |-> TRUE, size |-> 0, decoded |-> None],
      [exists |-> TRUE, size |-> 7, decoded |-> None] }
    \cup { [exists |-> TRUE, size |-> 7, decoded |-> s] : s \in Shapes }

\* result[1] of the entries readtext returns in a pipeline run
Fragments == { <<"t", "a", "x">>, <<"a", "b">> }

\* result[1] of the entries readtext returns in the scoring specification
ScoreFragments ==
    { <<>>, <<"x">>, <<"t", "a">>, <<"t", "a", "x">>, <<"T", "A", "X">>,
      <<"T", "a", "x">>, <<"q", "t", "y">>, <<"T", "o", "t", "a", "l">>,
      <<"s", "u", "b", "t", "o", "t", "a", "l">>, <<"c", "a", "s", "h">> }

\* the lists of at most n fragments
Results(F, n) == UNION { [1..k -> F] : k \in 0..n }

\* ------------------------------------------------------- Python float ops
\* A float is [m |-> significand bits, most significant first, e |-> exponent],
\* its value is (m read as a binary number) * 2^e.

RECURSIVE BitsToNat(_)
BitsToNat(bits) ==
    IF bits = <<>> THEN 0
    ELSE 2 * BitsToNat(SubSeq(bits, 1, Len(bits) - 1)) + bits[Len(bits)]

RECURSIVE NatToBits(_)
NatToBits(n) == IF n = 0 THEN <<>> ELSE NatToBits(n \div 2) \o <<n % 2>>

\* the first k bits after the binary point of r / d, for r < d
RECURSIVE FracBits(_, _, _)
FracBits(r, d, k) ==
    IF k = 0 THEN <<>>
    ELSE IF 2 * r >= d THEN <<1>> \o FracBits(2 * r - d, d, k - 1)
    ELSE <<0>> \o FracBits(2 * r, d, k - 1)

\* what is left of r / d after those k bits
RECURSIVE FracRem(_, _, _)
FracRem(r, d, k) ==
    IF k = 0 THEN r
    ELSE IF 2 * r >= d THEN FracRem(2 * r - d, d, k - 1)
    ELSE FracRem(2 * r, d, k - 1)

\* zero bits between the binary point and the first one bit of r / d
RECURSIVE LeadingZeros(_, _)
LeadingZeros(r, d) == IF 2 * r >= d THEN 0 ELSE 1 + LeadingZeros(2 * r, d)

RECURSIVE IncBits(_)
IncBits(bits) ==
    IF bits = <<>> THEN <<1>>
    ELSE IF bits[Len(bits)] = 0 THEN SubSeq(bits, 1, Len(bits) - 1) \o <<1>>
    ELSE IncBits(SubSeq(bits, 1, Len(bits) - 1)) \o <<0>>

\* round to nearest, ties to even, to mant_dig significant bits; sticky says
\* that the exact value has further non-zero bits after the ones given
RoundBits(bits, e, sticky) ==
    IF Len(bits) <= mant_dig /\ ~sticky THEN [m |-> bits, e |-> e]
    ELSE LET top   == SubSeq(bits, 1, mant_dig)
             guard == IF Len(bits) > mant_dig THEN bits[mant_dig + 1] ELSE 0
             rest  == sticky \/ \E i \in (mant_dig + 2)..Len(bits) : bits[i] = 1
             up    == guard = 1 /\ (rest \/ top[mant_dig] = 1)
             e2    == e + (Len(bits) - mant_dig)
             inc   == IncBits(top)
         IN  IF ~up THEN [m |-> top, e |-> e2]
             ELSE IF Len(inc) > mant_dig
                  THEN [m |-> SubSeq(inc, 1, mant_dig), e |-> e2 + 1]
                  ELSE [m |-> inc, e |-> e2]

\* int / int (true division), for 0 < n < d
TrueDiv(n, d) ==
    LET z    == LeadingZeros(n, d)
        k    == z + mant_dig + 1
    IN  RoundBits(SubSeq(FracBits(n, d, k), z + 1, k), -k, FracRem(n, d, k) # 0)

\* the exact product of a bit string and a natural number
RECURSIVE MulBits(_, _, _)
MulBits(bits, w, carry) ==
    IF bits = <<>> THEN NatToBits(carry)
    ELSE IF (bits[Len(bits)] * w + carry) % 2 = 0
         THEN MulBits(SubSeq(bits, 1, Len(bits) - 1), w,
                      (bits[Len(bits)] * w + carry) \div 2) \o <<0>>
         ELSE MulBits(SubSeq(bits, 1, Len(bits) - 1), w,
                      (bits[Len(bits)] * w + carry) \div 2) \o <<1>>

\* int * float, for w > 0
MulInt(w, f) == RoundBits(MulBits(f.m, w, 0), f.e, FALSE)

\* int(float), for a float >= 0
Trunc(f) ==
    IF Len(f.m) + f.e <= 0 THEN 0
    ELSE BitsToNat(SubSeq(f.m, 1, Len(f.m) + f.e))

Max(a, b) == IF a >= b THEN a ELSE b

\* ------------------------------------------------------------- validation
\* scale = max_dimension / max(height, width)
Scale(height, width) == TrueDiv(max_dimension, Max(height, width))

\* (new_height, new_width) = (int(height * scale), int(width * scale))
NewShape(height, width) ==
    << Trunc(MulInt(height, Scale(height, width))),
       Trunc(MulInt(width, Scale(height, width))) >>

NeedsResize(height, width) == height > max_dimension \/ width > max_dimension

\* cv2.resize(img, (new_width, new_height)) raises cv2.error when the
\* requested size has a dimension that is not positive
ResizeRaises(shape) == shape[1] <= 0 \/ shape[2] <= 0

\* -------------------------------------------------------------- rotations
\* shape of cv2.rotate(img, code)
Rotate(shape, code) ==
    IF code = ROTATE_180 THEN shape ELSE <<shape[2], shape[1]>>

Rotations(shape) ==
    << [code |-> 0, shape |-> shape,
        name |-> <<"o", "r", "i", "g", "i", "n", "a", "l">>],
       [code |-> ROTATE_90_CLOCKWISE,
        shape |-> Rotate(shape, ROTATE_90_CLOCKWISE),
        name |-> <<"9", "0", "deg", " ", "C", "W">>],
       [code |-> ROTATE_180,
        shape |-> Rotate(shape, ROTATE_180),
        name |-> <<"1", "8", "0", "deg">>],
       [code |-> ROTATE_90_COUNTERCLOCKWISE,
        shape |-> Rotate(shape, ROTATE_90_COUNTERCLOCKWISE),
        name |-> <<"9", "0", "deg", " ", "C", "C", "W">>] >>

\* str.replace for a one-character old and a new of any length
RECURSIVE Replace(_, _, _)
Replace(s, old, new) ==
    IF s = <<>> THEN <<>>
    ELSE (IF Head(s) = old THEN new ELSE <<Head(s)>>) \o Replace(Tail(s), old, new)

TempPath(path, rotation_name) ==
    path \o <<"_", "r", "o", "t", "_">>
         \o Replace(Replace(rotation_name, "deg", <<"d">>), " ", <<>>)
         \o <<".", "j", "p", "g">>

\* ---------------------------------------------------------------- scoring
\* ' '.join(fragments)
RECURSIVE Join(_)
Join(fragments) ==
    IF fragments = <<>> THEN <<>>
    ELSE IF Len(fragments) = 1 THEN fragments[1]
    ELSE fragments[1] \o <<" ">> \o Join(Tail(fragments))

UpperCase ==
    <<"A", "B", "C", "D", "E", "F", "G", "H", "I", "J", "K", "L", "M",
      "N", "O", "P", "Q", "R", "S", "T", "U", "V", "W", "X", "Y", "Z">>
LowerCase ==
    <<"a", "b", "c", "d", "e", "f", "g", "h", "i", "j", "k", "l", "m",
      "n", "o", "p", "q", "r", "s", "t", "u", "v", "w", "x", "y", "z">>

LowerChar(c) ==
    IF \E i \in 1..Len(UpperCase) : UpperCase[i] = c
    THEN LowerCase[CHOOSE i \in 1..Len(UpperCase) : UpperCase[i] = c]
    ELSE c

\* str.lower
Lower(s) == [i \in 1..Len(s) |-> LowerChar(s[i])]

\* word in s
In(word, s) ==
    \E i \in 0..(Len(s) - Len(word)) : SubSeq(s, i + 1, i + Len(word)) = word

\* mutant: every occurrence of a word counts
RECURSIVE WordCountOccurrences(_, _)
WordCountOccurrences(words, text_lower) ==
    IF words = <<>> THEN 0
    ELSE Cardinality({ i \in 0..(Len(text_lower) - Len(Head(words))) :
                         SubSeq(text_lower, i + 1, i + Len(Head(words))) = Head(words) })
         + WordCountOccurrences(Tail(words), text_lower)

\* sum(1 for word in words if word in text_lower)
RECURSIVE WordCount(_, _)
WordCount(words, text_lower) ==
    IF words = <<>> THEN 0
    ELSE (IF In(Head(words), text_lower) THEN 1 ELSE 0)
         + WordCount(Tail(words), text_lower)

ScoreOf(t) == Len(t) + WordCount(common_words, Lower(t)) * keyword_weight

\* mutant: a tie replaces the running best
BetterOrEqual(s, best) == s >= best

\* mutant: the score is compared with the initial score, not the running best
BetterThanInitial(s, best) == s > 0

\* score > best_score
Better(s, best) == s > best

\* ---------------------------------------------------------------- reports
SuccessReport(t) == [success |-> TRUE, text |-> t]
\* mutant: a failure report that also carries a text
FailureReportWithText(message) ==
    [success |-> FALSE, error |-> message, text |-> <<>>]

FailureReport(message) == [success |-> FALSE, error |-> message]

\* mutant: the scratch file is left behind
RemoveNothing(fs, path) == fs

\* os.remove
Remove(fs, path) == fs \ {path}

\* ------------------------------------------------------------------ state
VARIABLES
    argv,         \* sys.argv
    disk,         \* what is at the image path
    pc,           \* position in the script
    image_path,   \* argument of extract_text
    file_size,
    img,          \* shape (height, width) of the raster, None before imread
    reader,       \* TRUE once easyocr.Reader has been constructed
    rotations,
    idx,          \* position of the for loop in rotations
    temp_path,
    files,        \* scratch files that exist on disk
    text,
    score,
    best_text,
    best_score,
    exc,          \* message of the exception being propagated
    stdout,       \* the JSON objects written to standard output
    exit_status,  \* <<>> while running, <<status>> once the process has ended
    calls,        \* how often each external operation was called
    attempts      \* the candidates whose recognition was attempted

vars ==
    << argv, disk, pc, image_path, file_size, img, reader, rotations, idx,
       temp_path, files, text, score, best_text, best_score, exc, stdout,
       exit_status, calls, attempts >>

Ops ==
    { "exists", "getsize", "imread", "resize", "Reader", "rotate",
      "imwrite", "readtext", "remove" }

Called(op) == [calls EXCEPT ![op] = @ + 1]

Init ==
    /\ argv \in Argvs
    /\ disk \in Disks
    /\ pc = "main"
    /\ image_path = <<>>
    /\ file_size = 0
    /\ img = None
    /\ reader = FALSE
    /\ rotations = <<>>
    /\ idx = 0
    /\ temp_path = <<>>
    /\ files = {}
    /\ text = <<>>
    /\ score = 0
    /\ best_text = <<>>
    /\ best_score = 0
    /\ exc = <<>>
    /\ stdout = <<>>
    /\ exit_status = <<>>
    /\ calls = [op \in Ops |-> 0]
    /\ attempts = <<>>

\* raise Exception(message) inside the outer try
Raise(message) ==
    /\ exc' = message
    /\ pc' = "except"

\* __main__: the argument check, the usage report and sys.exit(1)
Main ==
    /\ pc = "main"
    /\ IF Len(argv) < 2
       THEN /\ stdout' = Append(stdout, FailureReport(<<"No image path provided">>))
            /\ exit_status' = <<1>>
            /\ pc' = "done"
            /\ UNCHANGED image_path
       ELSE /\ image_path' = argv[2]
            /\ pc' = "exists"
            /\ UNCHANGED <<stdout, exit_status>>
    /\ UNCHANGED << argv, disk, file_size, img, reader, rotations, idx, temp_path,
                    files, text, score, best_text, best_score, exc, calls, attempts >>

\* if not os.path.exists(image_path): raise
Exists ==
    /\ pc = "exists"
    /\ calls' = Called("exists")
    /\ IF ~disk.exists
       THEN Raise(<<"File not found: ", image_path>>)
       ELSE pc' = "getsize" /\ UNCHANGED exc
    /\ UNCHANGED << argv, disk, image_path, file_size, img, reader, rotations, idx,
                    temp_path, files, text, score, best_text, best_score,
                    stdout, exit_status, attempts >>

\* file_size = os.path.getsize(image_path); if file_size == 0: raise
GetSize ==
    /\ pc = "getsize"
    /\ calls' = Called("getsize")
    /\ file_size' = disk.size
    /\ IF file_size' = 0
       THEN Raise(<<"File is empty: ", image_path>>)
       ELSE pc' = "imread" /\ UNCHANGED exc
    /\ UNCHANGED << argv, disk, image_path, img, reader, rotations, idx, temp_path,
                    files, text, score, best_text, best_score, stdout,
                    exit_status, attempts >>

\* img = cv2.imread(image_path); if img is None: raise
Imread ==
    /\ pc = "imread"
    /\ calls' = Called("imread")
    /\ img' = disk.decoded
    /\ IF img' = None
       THEN Raise(<<"Cannot read image file (corrupted or invalid format): ",
                    image_path>>)
       ELSE pc' = "shape" /\ UNCHANGED exc
    /\ UNCHANGED << argv, disk, image_path, file_size, reader, rotations, idx,
                    temp_path, files, text, score, best_text, best_score,
                    stdout, exit_status, attempts >>

\* mutant: only the height is checked
CheckHeightOnly ==
    /\ pc = "shape"
    /\ IF img[1] = 0
       THEN Raise(<<"Image has zero dimensions: ", img>>)
       ELSE pc' = "resize" /\ UNCHANGED exc
    /\ UNCHANGED << argv, disk, image_path, file_size, img, reader, rotations,
                    idx, temp_path, files, text, score, best_text, best_score,
                    stdout, exit_status, calls, attempts >>

\* if img.shape[0] == 0 or img.shape[1] == 0: raise
CheckShape ==
    /\ pc = "shape"
    /\ IF img[1] = 0 \/ img[2] = 0
       THEN Raise(<<"Image has zero dimensions: ", img>>)
       ELSE pc' = "resize" /\ UNCHANGED exc
    /\ UNCHANGED << argv, disk, image_path, file_size, img, reader, rotations, idx,
                    temp_path, files, text, score, best_text, best_score,
                    stdout, exit_status, calls, attempts >>

\* the downsampling of an oversized raster
Resize ==
    /\ pc = "resize"
    /\ IF NeedsResize(img[1], img[2])
       THEN /\ calls' = Called("resize")
            /\ IF ResizeRaises(NewShape(img[1], img[2]))
               THEN Raise(<<"cv2.error: resize">>) /\ UNCHANGED img
               ELSE /\ img' = NewShape(img[1], img[2])
                    /\ pc' = "reader"
                    /\ UNCHANGED exc
       ELSE /\ pc' = "reader"
            /\ UNCHANGED <<img, calls, exc>>
    /\ UNCHANGED << argv, disk, image_path, file_size, reader, rotations, idx,
                    temp_path, files, text, score, best_text, best_score,
                    stdout, exit_status, attempts >>

\* reader = easyocr.Reader(['en'], gpu=False, verbose=False)
InitReader ==
    /\ pc = "reader"
    /\ calls' = Called("Reader")
    /\ \E constructed \in BOOLEAN :
          IF constructed
          THEN reader' = TRUE /\ pc' = "rotations" /\ UNCHANGED exc
          ELSE Raise(<<"easyocr.Reader failed">>) /\ UNCHANGED reader
    /\ UNCHANGED << argv, disk, image_path, file_size, img, rotations, idx,
                    temp_path, files, text, score, best_text, best_score,
                    stdout, exit_status, attempts >>

\* rotations = [...]; best_text = ""; best_score = 0; entry of the for loop
BuildRotations ==
    /\ pc = "rotations"
    /\ calls' = [calls EXCEPT !["rotate"] = @ + 3]
    /\ rotations' = Rotations(img)
    /\ best_text' = <<>>
    /\ best_score' = 0
    /\ idx' = 1
    /\ pc' = IF Len(rotations') >= 1 THEN "imwrite" ELSE "report"
    /\ UNCHANGED << argv, disk, image_path, file_size, img, reader, temp_path,
                    files, text, score, exc, stdout, exit_status,
                    attempts >>

\* temp_path = ...; cv2.imwrite(temp_path, rotated_img), which returns False
\* without creating the file when the file cannot be written
Imwrite ==
    /\ pc = "imwrite"
    /\ calls' = Called("imwrite")
    /\ temp_path' = TempPath(image_path, rotations[idx].name)
    /\ \E written \in BOOLEAN :
          files' = IF written THEN files \cup {temp_path'} ELSE files
    /\ pc' = "readtext"
    /\ UNCHANGED << argv, disk, image_path, file_size, img, reader, rotations, idx,
                    text, score, best_text, best_score, exc, stdout,
                    exit_status, attempts >>

\* the try body: readtext returns, the text is joined and scored and the
\* running best is updated; the engine needs the scratch file to read
ReadText(R) ==
    /\ pc = "readtext"
    /\ temp_path \in files
    /\ calls' = Called("readtext")
    /\ \E results \in R :
          /\ text' = Join(results)
          /\ score' = ScoreOf(text')
          /\ IF Better(score', best_score)
             THEN best_text' = text' /\ best_score' = score'
             ELSE UNCHANGED <<best_text, best_score>>
          /\ attempts' = Append(attempts,
                [name |-> rotations[idx].name, ok |-> TRUE,
                 text |-> text', score |-> score'])
    /\ pc' = "finally"
    /\ UNCHANGED << argv, disk, image_path, file_size, img, reader, rotations, idx,
                    temp_path, files, exc, stdout, exit_status >>

Recognize == ReadText(Results(Fragments, MaxFragments))

\* readtext raises; except Exception: pass
ReadTextFail ==
    /\ pc = "readtext"
    /\ calls' = Called("readtext")
    /\ attempts' = Append(attempts,
          [name |-> rotations[idx].name, ok |-> FALSE, text |-> <<>>,
           score |-> 0])
    /\ pc' = "finally"
    /\ UNCHANGED << argv, disk, image_path, file_size, img, reader, rotations, idx,
                    temp_path, files, text, score, best_text, best_score,
                    exc, stdout, exit_status >>

\* mutant: a failed candidate ends the loop
FinallyStopOnFailure ==
    /\ pc = "finally"
    /\ calls' = Called("remove")
    /\ files' = Remove(files, temp_path)
    /\ IF idx < Len(rotations) /\ attempts[Len(attempts)].ok
       THEN idx' = idx + 1 /\ pc' = "imwrite"
       ELSE pc' = "report" /\ UNCHANGED idx
    /\ UNCHANGED << argv, disk, image_path, file_size, img, reader, rotations,
                    temp_path, text, score, best_text, best_score, exc,
                    stdout, exit_status, attempts >>

\* finally: os.remove(temp_path), its failure ignored; next iteration
Finally ==
    /\ pc = "finally"
    /\ calls' = Called("remove")
    /\ files' = Remove(files, temp_path)
    /\ IF idx < Len(rotations)
       THEN idx' = idx + 1 /\ pc' = "imwrite"
       ELSE pc' = "report" /\ UNCHANGED idx
    /\ UNCHANGED << argv, disk, image_path, file_size, img, reader, rotations,
                    temp_path, text, score, best_text, best_score, exc,
                    stdout, exit_status, attempts >>

\* mutant: a run without any recognised candidate reports a failure
ReportUnlessAllFailed ==
    /\ pc = "report"
    /\ IF \A i \in 1..Len(attempts) : ~attempts[i].ok
       THEN /\ stdout' = Append(stdout, FailureReport(<<"recognition failed">>))
            /\ UNCHANGED text
       ELSE /\ text' = best_text
            /\ stdout' = Append(stdout, SuccessReport(text'))
    /\ pc' = "exit"
    /\ UNCHANGED << argv, disk, image_path, file_size, img, reader, rotations,
                    idx, temp_path, files, score, best_text, best_score, exc,
                    exit_status, calls, attempts >>

\* text = best_text; sys.stdout.write(json.dumps({success: True, text}))
Report ==
    /\ pc = "report"
    /\ text' = best_text
    /\ stdout' = Append(stdout, SuccessReport(text'))
    /\ pc' = "exit"
    /\ UNCHANGED << argv, disk, image_path, file_size, img, reader, rotations, idx,
                    temp_path, files, score, best_text, best_score, exc,
                    exit_status, calls, attempts >>

\* except Exception as e: sys.stdout.write(json.dumps({success: False, error}))
Except ==
    /\ pc = "except"
    /\ stdout' = Append(stdout, FailureReport(exc))
    /\ pc' = "exit"
    /\ UNCHANGED << argv, disk, image_path, file_size, img, reader, rotations, idx,
                    temp_path, files, text, score, best_text, best_score,
                    exc, exit_status, calls, attempts >>

\* mutant: the exit status follows the report
ExitByOutcome ==
    /\ pc = "exit"
    /\ exit_status' = IF stdout[Len(stdout)].success THEN <<0>> ELSE <<1>>
    /\ pc' = "done"
    /\ UNCHANGED << argv, disk, image_path, file_size, img, reader, rotations,
                    idx, temp_path, files, text, score, best_text, best_score,
                    exc, stdout, calls, attempts >>

\* extract_text returns and the script ends
Exit ==
    /\ pc = "exit"
    /\ exit_status' = <<0>>
    /\ pc' = "done"
    /\ UNCHANGED << argv, disk, image_path, file_size, img, reader, rotations, idx,
                    temp_path, files, text, score, best_text, best_score,
                    exc, stdout, calls, attempts >>

Next ==
    \/ Main
    \/ Exists
    \/ GetSize
    \/ Imread
    \/ CheckShape
    \/ Resize
    \/ InitReader
    \/ BuildRotations
    \/ Imwrite
    \/ Recognize
    \/ ReadTextFail
    \/ Finally
    \/ Report
    \/ Except
    \/ Exit

Spec == Init /\ [][Next]_vars

\* ------------------------------------------- the scoring step on its own
\* The run stands at the first readtext call of a validated 4 x 6 image.
InitScore ==
    /\ argv = <<ScriptName, PathArg>>
    /\ disk = [exists |-> TRUE, size |-> 7, decoded |-> <<4, 6>>]
    /\ pc = "readtext"
    /\ image_path = PathArg
    /\ file_size = 7
    /\ img = <<4, 6>>
    /\ reader = TRUE
    /\ rotations = Rotations(<<4, 6>>)
    /\ idx = 1
    /\ temp_path = TempPath(PathArg, Rotations(<<4, 6>>)[1].name)
    /\ files = {temp_path}
    /\ text = <<>>
    /\ score = 0
    /\ best_text = <<>>
    /\ best_score = 0
    /\ exc = <<>>
    /\ stdout = <<>>
    /\ exit_status = <<>>
    /\ calls = [op \in Ops |->
                   IF op \in {"resize", "readtext", "remove"} THEN 0
                   ELSE IF op = "rotate" THEN 3 ELSE 1]
    /\ attempts = <<>>

ScoreCandidate == ReadText(Results(ScoreFragments, MaxScoreFragments))

NextScore == ScoreCandidate

SpecScore == InitScore /\ [][NextScore]_vars

\* ================================================================ claims

HasPath == Len(argv) >= 2

\* the file at the image path passes the four validation checks
Valid ==
    /\ disk.exists
    /\ disk.size # 0
    /\ disk.decoded # None
    /\ disk.decoded[1] # 0
    /\ disk.decoded[2] # 0

WellFormed(r) ==
    \/ r.success = TRUE /\ DOMAIN r = {"success", "text"}
    \/ r.success = FALSE /\ DOMAIN r = {"success", "error"}

FailedAt == { i \in 1..Len(attempts) : ~attempts[i].ok }
RecognisedAt == { i \in 1..Len(attempts) : attempts[i].ok }

\* C1: at most one report is ever on standard output, and a run that has
\* ended has written exactly one, which is either {success=true, text} or
\* {success=false, error}.
C1_OneReport ==
    /\ Len(stdout) <= 1
    /\ \A i \in 1..Len(stdout) : WellFormed(stdout[i])
    /\ (pc = "done" \/ exit_status # <<>>) => Len(stdout) = 1

\* a run that ended on the failure of the engine's construction
C1_Witness ==
    /\ pc = "done"
    /\ calls["Reader"] = 1
    /\ ~reader
    /\ stdout = <<[success |-> FALSE, error |-> <<"easyocr.Reader failed">>]>>

\* C2 (as stated): a run whose four recognitions all failed reports
\* success=false with an error.
C2_AllFailedReportsFailure ==
    (pc = "done" /\ Cardinality(FailedAt) = 4)
        => (Len(stdout) = 1 /\ stdout[1].success = FALSE
            /\ "error" \in DOMAIN stdout[1])

\* C2 (amended): a run whose four recognitions all failed reports
\* success=true with the empty text, and no error.
C2_AllFailedReportsEmptyText ==
    (pc = "done" /\ Cardinality(FailedAt) = 4)
        => stdout = <<[success |-> TRUE, text |-> <<>>]>>

C2_Witness ==
    /\ pc = "done"
    /\ Cardinality(FailedAt) = 4
    /\ calls["readtext"] = 4

MaxScore ==
    IF RecognisedAt = {} THEN 0
    ELSE CHOOSE m \in { attempts[i].score : i \in RecognisedAt } :
            \A i \in RecognisedAt : attempts[i].score <= m

Winner ==
    CHOOSE i \in RecognisedAt :
        /\ attempts[i].score = MaxScore
        /\ \A j \in RecognisedAt : j < i => attempts[j].score < MaxScore

\* C3: after the four candidates the reported text is that of the earliest
\* recognised candidate with the maximum score when that maximum is above 0,
\* and the empty string, with success=true, otherwise.
C3_Selection ==
    (pc = "done" /\ Len(attempts) = 4)
        => stdout = <<[success |-> TRUE,
                       text |-> IF MaxScore > 0 THEN attempts[Winner].text
                                ELSE <<>>]>>

\* two recognised candidates tie on the maximum with different texts, the
\* earlier one is reported, and one candidate failed
C3_Witness ==
    /\ pc = "done"
    /\ Len(attempts) = 4
    /\ FailedAt # {}
    /\ \E i, j \in RecognisedAt :
          /\ i < j
          /\ attempts[i].score = MaxScore
          /\ attempts[j].score = MaxScore
          /\ attempts[i].text # attempts[j].text
          /\ stdout[1].text = attempts[i].text

\* C4: the exit status is 1 exactly when no path argument was given; that run
\* reports "No image path provided" and runs no pipeline step; a run with a
\* path argument exits with status 0.
C4_ExitStatus ==
    /\ exit_status # <<>> => (exit_status = <<1>> <=> ~HasPath)
    /\ (exit_status # <<>> /\ HasPath) => exit_status = <<0>>
    /\ ~HasPath =>
          /\ \A op \in Ops : calls[op] = 0
          /\ files = {} /\ ~reader /\ rotations = <<>> /\ attempts = <<>>
          /\ pc = "done" =>
                stdout = <<[success |-> FALSE,
                            error |-> <<"No image path provided">>]>>

C4_Witness ==
    /\ pc = "done"
    /\ ~HasPath
    /\ exit_status = <<1>>
    /\ Len(stdout) = 1

PipelineStarted ==
    \/ reader
    \/ calls["Reader"] > 0
    \/ calls["resize"] > 0
    \/ calls["rotate"] > 0
    \/ calls["imwrite"] > 0
    \/ calls["readtext"] > 0
    \/ rotations # <<>>
    \/ files # {}

ValidationError ==
    IF ~disk.exists THEN "File not found: "
    ELSE IF disk.size = 0 THEN "File is empty: "
    ELSE IF disk.decoded = None
         THEN "Cannot read image file (corrupted or invalid format): "
    ELSE "Image has zero dimensions: "

\* C6: the engine is constructed, rotations are made, scratch files written
\* and recognition called only for a file that passes the four checks and
\* after they were made; a run on a file that fails one reports that failure.
C6_ValidationFirst ==
    /\ PipelineStarted =>
          /\ Valid
          /\ calls["exists"] = 1 /\ calls["getsize"] = 1 /\ calls["imread"] = 1
          /\ file_size = disk.size
    /\ (HasPath /\ ~Valid /\ pc = "done") =>
          /\ Len(stdout) = 1
          /\ stdout[1].success = FALSE
          /\ stdout[1].error[1] = ValidationError
          /\ ~PipelineStarted

\* a run on an image of zero width
C6_Witness ==
    /\ pc = "done"
    /\ disk.decoded = <<5, 0>>
    /\ stdout[1].success = FALSE

Vocabulary ==
    { <<"t", "o", "t", "a", "l">>, <<"t", "a", "x">>,
      <<"s", "u", "b", "t", "o", "t", "a", "l">>,
      <<"r", "e", "c", "e", "i", "p", "t">>, <<"d", "a", "t", "e">>,
      <<"s", "t", "o", "r", "e">>, <<"i", "n", "v", "o", "i", "c", "e">>,
      <<"p", "a", "i", "d">>, <<"c", "h", "a", "n", "g", "e">>,
      <<"c", "a", "s", "h">>, <<"c", "a", "r", "d">>,
      <<"a", "m", "o", "u", "n", "t">>, <<"q", "t", "y">>,
      <<"p", "r", "i", "c", "e">> }

SameLetter(a, b) ==
    \/ a = b
    \/ \E n \in 1..Len(UpperCase) : {a, b} = {UpperCase[n], LowerCase[n]}

OccursIgnoringCase(k, t) ==
    \E i \in 1..Len(t) :
        /\ i + Len(k) - 1 <= Len(t)
        /\ \A j \in 1..Len(k) : SameLetter(t[i + j - 1], k[j])

\* C7: the score of a recognised text is its length plus 100 for each
\* vocabulary term that occurs in it, whatever the case and however often.
C7_Score ==
    pc = "finally" =>
        score = Len(text)
                + 100 * Cardinality({ k \in Vocabulary : OccursIgnoringCase(k, text) })

\* "TAX tax subtotal": tax twice in two cases, and subtotal containing total
C7_Witness ==
    /\ pc = "finally"
    /\ text = <<"T", "A", "X", " ", "t", "a", "x", " ",
                "s", "u", "b", "t", "o", "t", "a", "l">>
    /\ score = 316

ResizeDone ==
    pc \notin {"main", "exists", "getsize", "imread", "shape", "resize"}

\* the shape the decoded raster is to have after the downsampling step
DownsampledShape ==
    LET h == disk.decoded[1]
        w == disk.decoded[2]
    IN  IF Max(h, w) > 3000
        THEN <<(h * 3000) \div Max(h, w), (w * 3000) \div Max(h, w)>>
        ELSE <<h, w>>

\* C8: past the downsampling step a raster whose larger dimension exceeded
\* 3000 has it equal to 3000 and the other one scaled in proportion, rounded
\* down, a smaller raster is unchanged, and both dimensions are non-zero.
C8_Downsample ==
    (HasPath /\ Valid /\ ResizeDone) =>
        /\ img = DownsampledShape
        /\ img[1] > 0
        /\ img[2] > 0

CandidateOrder ==
    << <<"o", "r", "i", "g", "i", "n", "a", "l">>,
       <<"9", "0", "deg", " ", "C", "W">>,
       <<"1", "8", "0", "deg">>,
       <<"9", "0", "deg", " ", "C", "C", "W">> >>

AttemptedNames == [i \in 1..Len(attempts) |-> attempts[i].name]

\* C9: a failed recognition leaves the running best as it was and the run
\* goes on; the candidates attempted are always a prefix of ORIGINAL, CW90,
\* FLIP180, CCW90, and all four once the loop of a run that constructed the
\* engine is over.
C9_FailureIsLocal ==
    [][ /\ (Len(attempts') = Len(attempts) + 1 /\ ~attempts'[Len(attempts')].ok)
            => /\ best_text' = best_text
               /\ best_score' = best_score
               /\ pc' = "finally"
        /\ Len(attempts') <= 4
        /\ AttemptedNames' = SubSeq(CandidateOrder, 1, Len(attempts'))
        /\ (reader' /\ pc' \in {"report", "exit", "done"})
            => /\ Len(attempts') = 4
               /\ calls'["readtext"] = 4
               /\ exc' = <<>>
      ]_vars

\* the first candidate failed, a later one was recognised and is reported
C9_Witness ==
    /\ pc = "done"
    /\ Len(attempts) = 4
    /\ ~attempts[1].ok
    /\ attempts[3].ok
    /\ ~attempts[4].ok
    /\ stdout = <<[success |-> TRUE, text |-> attempts[3].text]>>
    /\ attempts[3].text # <<>>

BestConsistent ==
    /\ best_score = ScoreOf(best_text)
    /\ \/ best_text = <<>>
       \/ \E i \in RecognisedAt : attempts[i].text = best_text

\* C10: the running best score is the score of the running best text, that
\* text is empty or the text of a candidate recognised so far, and the
\* running best score never decreases.
C10_RunningBest ==
    /\ []BestConsistent
    /\ [][best_score' >= best_score]_vars

\* between two evaluations, after a recognised candidate that did not
\* replace the running best
C10_Witness ==
    /\ pc = "imwrite"
    /\ idx = 3
    /\ attempts[1].ok
    /\ attempts[2].ok
    /\ attempts[2].score < best_score
    /\ best_text = attempts[1].text
====
